---- MODULE Spec2Model ----
(***************************************************************************)
(* Unit-commitment engine of phase3_uc.py: the two-stage solve protocol of *)
(* solve_uc (MILP over the candidate backends, fixing of the binaries, LP  *)
(* re-solve, extraction of the LMPs) and the input handling of             *)
(* build_uc_model.                                                         *)
(*                                                                         *)
(* A solver backend is an environment: one call of opt.solve either raises *)
(* or returns with a termination condition, and a returning call may or    *)
(* may not have loaded values into the model.                              *)
(***************************************************************************)
EXTENDS Integers, Sequences, FiniteSets, TLC

\* ------------------------------------------------------------------ bounds
MaxCands == 3          \* longest caller-supplied candidate list
Horizon == 1           \* periods of the model handed to solve_uc

\* ------------------------------------------------------- the model's sets
None == "None"
Backends == {"cbc", "glpk"}
G == {"g1"}
B == {1, 2}
T == 1 .. Horizon
GT == G \X T
BT == B \X T
BinNames == {"u", "v", "w"}
BinVars == BinNames \X G \X T
ContNames == {"p", "p_seg", "theta", "flow", "r_sp", "r_ns"}

\* A solved value is a rational <<numerator, denominator>>; a variable or a
\* suffix entry without a value (Python None) is the empty tuple.
NoVal == <<>>
\* 999999/1000000 is a binary within the integrality tolerance of 1.
SolvedBinVals == {<<0, 1>>, <<1, 2>>, <<999999, 1000000>>, <<1, 1>>}
DualVals == {<<20>>}
BalanceCons == {<<"balance", b, t>> : b \in B, t \in T}
OtherCons == {<<"spin_req", 1>>}
Cons == BalanceCons \cup OtherCons

\* solver_candidates=None is the one-element list <<None>> (None is no backend).
NoCandidates == <<None>>
DefaultCandidates == <<"cbc", "glpk">>
FallbackLP == "glpk"

SeqsUpTo(S, n) == UNION {[1 .. k -> S] : k \in 0 .. n}

VARIABLES
    pc,                \* position inside solve_uc
    solver_candidates, \* argument, then the effective candidate list
    solver_name,       \* argument, then the loop variable
    idx,               \* position of the for loop in solver_candidates
    last_exc,          \* 0 (None) or the call whose exception was kept
    lp_ex,             \* 0 or the call whose exception the LP handler holds
    used_solver,       \* None or the backend whose solve returned
    val,               \* value of every u, v, w variable (None: no value)
    fixed,             \* fixed flag of every u, v, w variable
    cont,              \* which solve loaded each continuous variable
    dual,              \* the dual suffix: constraint -> value or None
    result,            \* {} or {the returned tuple}
    exc,               \* {} or {the exception that left solve_uc}
    calls              \* every opt.solve call made so far, in order

solveVars == <<pc, solver_candidates, solver_name, idx, last_exc, lp_ex,
               used_solver, val, fixed, cont, dual, result, exc, calls>>

VARIABLES
    bpc,               \* position inside build_uc_model
    bdata,             \* the data argument (one generator, one line)
    bcomponents,       \* the component groups attached to the model so far
    bexc,              \* {} or {the exception that left build_uc_model}
    breturned          \* TRUE once the model has been returned

buildVars == <<bpc, bdata, bcomponents, bexc, breturned>>

VARIABLES
    kpc,               \* "idle", "data", "built" or "evaluated"
    kdata,             \* the data argument of build_uc_model
    kseg,              \* seg_bounds and seg_cost of every generator
    kpt,               \* a value for every decision variable of the model
    ksat,              \* whether kpt satisfies every constraint of the model
    kobj               \* model.obj at kpt

ucVars == <<kpc, kdata, kseg, kpt, ksat, kobj>>

VARIABLES
    xpc,               \* "none", "exported" or "raised": export_results
    xrows,             \* the records of unit_schedules.csv
    xlmp_rows          \* the records of lmps.csv

exportVars == <<xpc, xrows, xlmp_rows>>

VARIABLES
    arg_candidates,    \* the solver_candidates argument as the caller passed it
    arg_name           \* the solver_name argument as the caller passed it

callVars == <<arg_candidates, arg_name>>

vars == <<solveVars, buildVars, ucVars, exportVars, callVars>>

\* ------------------------------------------------------- pure helpers
Abs(x) == IF x < 0 THEN 0 - x ELSE x

\* int() alone, without round(): the fraction is dropped (faulty variant).
PyRoundTrunc(q) == q[1] \div q[2]
\* Python 3 round() of the rational q >= 0: nearest integer, ties to even.
PyRound(q) ==
    LET f == q[1] \div q[2]
        r == q[1] % q[2]
    IN  IF 2 * r < q[2] THEN f
        ELSE IF 2 * r > q[2] THEN f + 1
        ELSE IF f % 2 = 0 THEN f ELSE f + 1

Call(s, st, o, tc) == [solver |-> s, stage |-> st, outcome |-> o, status |-> tc]

\* What a returning opt.solve reports.
Statuses == {"optimal", "infeasible"}

NoDuals == [c \in Cons |-> NoVal]
DualSupplies == [Cons -> DualVals \cup {NoVal}]
MilpSolutions == [BinVars -> SolvedBinVals]
NoValues == [x \in BinVars |-> NoVal]

\* ------------------------------------------------------- solve_uc
SolveInit ==
    /\ pc = "start"
    /\ solver_candidates \in {NoCandidates} \cup SeqsUpTo(Backends, MaxCands)
    /\ solver_name \in {None} \cup Backends
    /\ idx = 0
    /\ last_exc = 0
    /\ lp_ex = 0
    /\ used_solver = None
    /\ val = NoValues
    /\ fixed = [x \in BinVars |-> FALSE]
    /\ cont = [c \in ContNames |-> "unset"]
    /\ dual = NoDuals
    /\ result = {}
    /\ exc = {}
    /\ calls = <<>>

\* line 240: the arguments of the call, kept as the caller passed them (the
\* code rebinds both names, lines 246-255)
ArgsRecorded ==
    /\ arg_candidates = solver_candidates
    /\ arg_name = solver_name

\* no solve_uc call in progress
SolveIdle ==
    /\ pc = "idle"
    /\ solver_candidates = <<>>
    /\ solver_name = None
    /\ idx = 0
    /\ last_exc = 0
    /\ lp_ex = 0
    /\ used_solver = None
    /\ val = NoValues
    /\ fixed = [x \in BinVars |-> FALSE]
    /\ cont = [c \in ContNames |-> "unset"]
    /\ dual = NoDuals
    /\ result = {}
    /\ exc = {}
    /\ calls = <<>>

\* lines 245-254: the candidate list, the dual suffix, last_exc = None
\* the list argument taken before the name (faulty variant)
EffectiveCandidatesListFirst(name, cands) ==
    IF cands # NoCandidates THEN cands
    ELSE IF name # None THEN <<name>>
    ELSE DefaultCandidates
EffectiveCandidates(name, cands) ==
    IF name # None THEN <<name>>
    ELSE IF cands = NoCandidates THEN DefaultCandidates
    ELSE cands

Enter ==
    /\ pc = "start"
    /\ solver_candidates' = EffectiveCandidates(solver_name, solver_candidates)
    /\ dual' = NoDuals
    /\ last_exc' = 0
    /\ idx' = 1
    /\ pc' = "milp"
    /\ UNCHANGED <<solver_name, lp_ex, used_solver, val, fixed, cont, result,
                   exc, calls>>
    /\ UNCHANGED <<buildVars, ucVars, exportVars, callVars>>

\* the list walked from its end (faulty variant)
CandidateReversed(cands, i) == cands[Len(cands) + 1 - i]
\* line 255: the candidate the for loop hands out at position i
Candidate(cands, i) == cands[i]

\* The exception object raised by a call is identified by the call's number.
Raised(types, causes) == {[type |-> types, causes |-> causes]}

\* lines 255-273: one iteration of the for loop, one opt.solve call
MilpAttempt ==
    /\ pc = "milp"
    /\ idx <= Len(solver_candidates)
    /\ solver_name' = Candidate(solver_candidates, idx)
    /\ \/ \* opt.solve raises: both except clauses keep the exception and go on
          /\ calls' = Append(calls, Call(solver_name', "milp", "raise", None))
          /\ last_exc' = Len(calls) + 1
          /\ idx' = idx + 1
          /\ UNCHANGED <<pc, used_solver, val, cont, dual>>
       \/ \* opt.solve returns: used_solver is bound and the loop is left,
          \* whatever res.solver.termination_condition says. An optimal solve
          \* loads values; one that ends infeasible may load values or none.
          \* A MILP has no duals to import. time_limit (lines 258-262) only
          \* sets a solver option.
          \E tc \in Statuses, loaded \in BOOLEAN, sol \in MilpSolutions :
             /\ tc = "optimal" => loaded
             /\ ~loaded => sol = CHOOSE x \in MilpSolutions : TRUE
             /\ calls' = Append(calls, Call(solver_name', "milp", "return", tc))
             /\ used_solver' = solver_name'
             /\ val' = IF loaded THEN sol ELSE val
             /\ cont' = IF loaded THEN [c \in ContNames |-> "milp"] ELSE cont
             /\ dual' = NoDuals
             /\ pc' = "milp_solved"
             /\ UNCHANGED <<idx, last_exc>>
    /\ UNCHANGED <<solver_candidates, lp_ex, fixed, result, exc>>
    /\ UNCHANGED <<buildVars, ucVars, exportVars, callVars>>

\* lines 274-275: the for loop's else clause
MilpExhausted ==
    /\ pc = "milp"
    /\ idx > Len(solver_candidates)
    /\ exc' = Raised("RuntimeError", IF last_exc = 0 THEN {} ELSE {last_exc})
    /\ pc' = "raised"
    /\ UNCHANGED <<solver_candidates, solver_name, idx, last_exc, lp_ex,
                   used_solver, val, fixed, cont, dual, result, calls>>
    /\ UNCHANGED <<buildVars, ucVars, exportVars, callVars>>

\* lines 277-284: value() of a variable without a value raises ValueError;
\* otherwise every u, v, w is fixed at int(round(value))
HasValues == \A x \in BinVars : val[x] # NoVal
FixedValue(q) == <<PyRound(q), 1>>

\* lines 283-284 left out: only u is fixed (faulty variant)
FixBinariesOnlyU ==
    /\ pc = "milp_solved"
    /\ IF HasValues
       THEN /\ val' = [x \in BinVars |->
                          IF x[1] = "u" THEN FixedValue(val[x]) ELSE val[x]]
            /\ fixed' = [x \in BinVars |-> x[1] = "u"]
            /\ pc' = "fixed"
            /\ exc' = exc
       ELSE /\ exc' = Raised("ValueError", {})
            /\ pc' = "raised"
            /\ UNCHANGED <<val, fixed>>
    /\ UNCHANGED <<solver_candidates, solver_name, idx, last_exc, lp_ex,
                   used_solver, cont, dual, result, calls>>
    /\ UNCHANGED <<buildVars, ucVars, exportVars, callVars>>

\* lines 277-284
FixBinaries ==
    /\ pc = "milp_solved"
    /\ IF HasValues
       THEN /\ val' = [x \in BinVars |-> FixedValue(val[x])]
            /\ fixed' = [x \in BinVars |-> TRUE]
            /\ pc' = "fixed"
            /\ exc' = exc
       ELSE /\ exc' = Raised("ValueError", {})
            /\ pc' = "raised"
            /\ UNCHANGED <<val, fixed>>
    /\ UNCHANGED <<solver_candidates, solver_name, idx, last_exc, lp_ex,
                   used_solver, cont, dual, result, calls>>
    /\ UNCHANGED <<buildVars, ucVars, exportVars, callVars>>

\* the retry taken whatever used_solver is (faulty variant)
LpResolveAlwaysRetry ==
    /\ pc = "fixed"
    /\ \/ \E tc \in Statuses, d \in DualSupplies :
             /\ calls' = Append(calls, Call(used_solver, "lp", "return", tc))
             /\ cont' = [c \in ContNames |-> "lp"]
             /\ dual' = d
             /\ pc' = "lp_solved"
             /\ UNCHANGED <<lp_ex, exc>>
       \/ /\ calls' = Append(calls, Call(used_solver, "lp", "raise", None))
          /\ lp_ex' = Len(calls) + 1
          /\ pc' = "lp_retry"
          /\ exc' = exc
          /\ UNCHANGED <<cont, dual>>
    /\ UNCHANGED <<solver_candidates, solver_name, idx, last_exc, used_solver,
                   val, fixed, result>>
    /\ UNCHANGED <<buildVars, ucVars, exportVars, callVars>>

\* lines 287-303, first opt.solve of the LP stage and its except clause up
\* to the test of used_solver
LpResolve ==
    /\ pc = "fixed"
    /\ \/ \E tc \in Statuses, d \in DualSupplies :
             /\ calls' = Append(calls, Call(used_solver, "lp", "return", tc))
             /\ cont' = [c \in ContNames |-> "lp"]
             /\ dual' = d
             /\ pc' = "lp_solved"
             /\ UNCHANGED <<lp_ex, exc>>
       \/ /\ calls' = Append(calls, Call(used_solver, "lp", "raise", None))
          /\ IF used_solver # FallbackLP
             THEN /\ lp_ex' = Len(calls) + 1
                  /\ pc' = "lp_retry"
                  /\ exc' = exc
             ELSE /\ exc' = Raised("reraised", {Len(calls) + 1})
                  /\ pc' = "raised"
                  /\ lp_ex' = lp_ex
          /\ UNCHANGED <<cont, dual>>
    /\ UNCHANGED <<solver_candidates, solver_name, idx, last_exc, used_solver,
                   val, fixed, result>>
    /\ UNCHANGED <<buildVars, ucVars, exportVars, callVars>>

\* lines 295-301: the retry with glpk
LpRetry ==
    /\ pc = "lp_retry"
    /\ \/ \E tc \in Statuses, d \in DualSupplies :
             /\ calls' = Append(calls, Call(FallbackLP, "lp", "return", tc))
             /\ cont' = [c \in ContNames |-> "lp"]
             /\ dual' = d
             /\ used_solver' = FallbackLP
             /\ pc' = "lp_solved"
             /\ exc' = exc
       \/ /\ calls' = Append(calls, Call(FallbackLP, "lp", "raise", None))
          /\ exc' = Raised("RuntimeError", {lp_ex, Len(calls) + 1})
          /\ pc' = "raised"
          /\ UNCHANGED <<cont, dual, used_solver>>
    /\ UNCHANGED <<solver_candidates, solver_name, idx, last_exc, lp_ex, val,
                   fixed, result>>
    /\ UNCHANGED <<buildVars, ucVars, exportVars, callVars>>

\* lines 305-313: the LMP map and the returned tuple (model, lmp)
BalanceOf(bt) == <<"balance", bt[1], bt[2]>>
\* the dual of the other bus's balance row (faulty variant)
ExtractedLmpOtherBus(d) ==
    [bt \in BT |-> d[<<"balance", CHOOSE b \in B : b # bt[1], bt[2]>>]]
\* lines 306-311; float() of a numeric dual keeps its value
ExtractedLmp(d) == [bt \in BT |-> d[BalanceOf(bt)]]

ExtractLmp ==
    /\ pc = "lp_solved"
    /\ result' = {[model |-> "model", lmp |-> ExtractedLmp(dual)]}
    /\ pc' = "returned"
    /\ UNCHANGED <<solver_candidates, solver_name, idx, last_exc, lp_ex,
                   used_solver, val, fixed, cont, dual, exc, calls>>
    /\ UNCHANGED <<buildVars, ucVars, exportVars, callVars>>

SolveNext ==
    \/ Enter
    \/ MilpAttempt
    \/ MilpExhausted
    \/ FixBinaries
    \/ LpResolve
    \/ LpRetry
    \/ ExtractLmp

\* ------------------------------------------------------- build_uc_model
Buses == {1, 2}
BuildData ==
    [gen_bus : {1, 9}, pmin : {0, 2}, pmax : {1}, ramp_up : {-1, 1},
     ramp_down : {-1, 1}, cost_a : {-1, 0}, cost_b : {-1, 1},
     min_up : {0, 1, 2}, min_down : {0, 1},
     line_from : {1, 9}, line_to : {2}, line_x : {0, 1}]
NoData ==
    [gen_bus |-> 0, pmin |-> 0, pmax |-> 0, ramp_up |-> 0, ramp_down |-> 0,
     cost_a |-> 0, cost_b |-> 0, min_up |-> 0, min_down |-> 0,
     line_from |-> 0, line_to |-> 0, line_x |-> 0]

BuildIdle ==
    /\ bpc = "idle"
    /\ bdata = NoData
    /\ bcomponents = {}
    /\ bexc = {}
    /\ breturned = FALSE

BuildInit ==
    /\ bpc = "start"
    /\ bdata \in BuildData
    /\ bcomponents = {}
    /\ bexc = {}
    /\ breturned = FALSE

\* line 101: Param(model.G, initialize=gen_bus, within=model.B) is the only
\* check of the data: a host bus outside model.B is rejected by the Param
GenBusInDomain(d) == d.gen_bus \in Buses

\* lines 36-120: sets, scalar parameters, segments, parameters
BuildParams ==
    /\ bpc = "start"
    /\ IF GenBusInDomain(bdata)
       THEN /\ bcomponents' = bcomponents \cup {"sets", "params"}
            /\ bpc' = "params"
            /\ bexc' = bexc
       ELSE /\ bcomponents' = bcomponents \cup {"sets"}
            /\ bexc' = {[type |-> "ValueError", line |-> 101]}
            /\ bpc' = "raised"
    /\ UNCHANGED <<bdata, breturned>>
    /\ UNCHANGED <<solveVars, ucVars, exportVars, callVars>>

\* lines 122-131: the decision variables
BuildVariables ==
    /\ bpc = "params"
    /\ bcomponents' = bcomponents \cup {"vars"}
    /\ bpc' = "vars"
    /\ UNCHANGED <<bdata, bexc, breturned>>
    /\ UNCHANGED <<solveVars, ucVars, exportVars, callVars>>

\* lines 198-204: dc_flow indexes theta by the line's buses when x > 0
DcFlowIndexable(d) ==
    d.line_x > 0 => (d.line_from \in Buses /\ d.line_to \in Buses)

\* lines 133-233: the constraints and the objective
BuildConstraints ==
    /\ bpc = "vars"
    /\ IF DcFlowIndexable(bdata)
       THEN /\ bcomponents' = bcomponents \cup {"constraints", "objective"}
            /\ bpc' = "built"
            /\ bexc' = bexc
       ELSE /\ bcomponents' = bcomponents
            /\ bexc' = {[type |-> "KeyError", line |-> 201]}
            /\ bpc' = "raised"
    /\ UNCHANGED <<bdata, breturned>>
    /\ UNCHANGED <<solveVars, ucVars, exportVars, callVars>>

\* line 235
BuildReturn ==
    /\ bpc = "built"
    /\ breturned' = TRUE
    /\ bpc' = "returned"
    /\ UNCHANGED <<bdata, bcomponents, bexc>>
    /\ UNCHANGED <<solveVars, ucVars, exportVars, callVars>>

BuildNext ==
    \/ BuildParams
    \/ BuildVariables
    \/ BuildConstraints
    \/ BuildReturn

\* ------------------------------------------- the model build_uc_model builds
\* Numbers are integers or rationals <<numerator, denominator>> with a
\* positive denominator; an absent dictionary key (g.get(key, None)) is <<>>.
Absent == <<>>
Rat(n) == <<n, 1>>
RatEq(q, r) == q[1] * r[2] = r[1] * q[2]
RatLeq(q, r) == q[1] * r[2] <= r[1] * q[2]
RECURSIVE Gcd(_, _)
Gcd(m, n) == IF n = 0 THEN m ELSE Gcd(n, m % n)
\* q in lowest terms
RatNorm(q) ==
    LET k == Gcd(Abs(q[1]), q[2]) IN <<q[1] \div k, q[2] \div k>>
RatSub(q, r) == RatNorm(<<q[1] * r[2] - r[1] * q[2], q[2] * r[2]>>)

RECURSIVE SumOver(_, _)
SumOver(S, f) ==
    IF S = {} THEN 0
    ELSE LET e == CHOOSE x \in S : TRUE IN f[e] + SumOver(S \ {e}, f)

\* np.linspace(pmin, pmax, n): n points from pmin to pmax, evenly spaced
Linspace(pmin, pmax, n) ==
    [i \in 1 .. n |-> <<pmin * (n - 1) + (i - 1) * (pmax - pmin), n - 1>>]

\* nseg points instead of nseg + 1 (faulty variant)
PiecewiseSegmentsShort(pmin, pmax, nseg) ==
    IF pmax <= pmin THEN << <<Rat(pmin), Rat(pmax)>> >>
    ELSE LET pts == IF nseg = 1 THEN << Rat(pmin) >> ELSE Linspace(pmin, pmax, nseg)
         IN  [i \in 1 .. Len(pts) - 1 |-> <<pts[i], pts[i + 1]>>]
\* lines 26-30
PiecewiseSegments(pmin, pmax, nseg) ==
    IF pmax <= pmin THEN << <<Rat(pmin), Rat(pmax)>> >>
    ELSE LET pts == Linspace(pmin, pmax, nseg + 1)
         IN  [i \in 1 .. Len(pts) - 1 |-> <<pts[i], pts[i + 1]>>]

\* line 70: mid = 0.5*(lo+hi)
Midpoint(lo, hi) == <<lo[1] * hi[2] + hi[1] * lo[2], 2 * lo[2] * hi[2]>>

\* the quadratic branch without the linear coefficient (faulty variant)
MarginalCostNoLinear(a, b, lo, hi) ==
    LET mid == Midpoint(lo, hi)
    IN  IF a # Absent /\ b # Absent THEN <<2 * a[1] * mid[1], mid[2]>>
        ELSE IF b # Absent THEN Rat(b[1])
        ELSE Rat(0)
\* lines 71-76: the marginal cost of the segment (lo, hi)
MarginalCost(a, b, lo, hi) ==
    LET mid == Midpoint(lo, hi)
    IN  IF a # Absent /\ b # Absent THEN <<2 * a[1] * mid[1] + b[1] * mid[2], mid[2]>>
        ELSE IF b # Absent THEN Rat(b[1])
        ELSE Rat(0)

\* lines 59-78: seg_bounds and seg_cost
SegBounds(d) ==
    [g \in DOMAIN d.gens |->
        PiecewiseSegments(d.gens[g].pmin, d.gens[g].pmax, d.nseg)]
SegCost(d) ==
    [g \in DOMAIN d.gens |->
        LET segs == SegBounds(d)[g]
        IN  [s \in 1 .. Len(segs) |->
                MarginalCost(d.gens[g].cost_a, d.gens[g].cost_b,
                             segs[s][1], segs[s][2])]]

\* A generator after the defaults of lines 49-57.
Gen(bus, pmin, pmax, ru, rd, mu, md, a, b) ==
    [bus |-> bus, pmin |-> pmin, pmax |-> pmax, ramp_up |-> ru,
     ramp_down |-> rd, startup_cost |-> 0, shutdown_cost |-> 0,
     min_up |-> mu, min_down |-> md, cost_a |-> a, cost_b |-> b]

\* lines 36-46 and 109-113: the index sets (segments are counted from 1)
KT(d) == 1 .. d.H
KG(d) == DOMAIN d.gens
KL(d) == DOMAIN d.lines
KS(d, g) == 1 .. Len(SegBounds(d)[g])
KGT(d) == KG(d) \X KT(d)
KGST(d) == {x \in KG(d) \X (1 .. d.nseg) \X KT(d) : x[2] \in KS(d, x[1])}

\* The decision variables of lines 123-131, all at zero.
ZeroPoint(d) ==
    [u |-> [x \in KGT(d) |-> 0], v |-> [x \in KGT(d) |-> 0],
     w |-> [x \in KGT(d) |-> 0], p |-> [x \in KGT(d) |-> 0],
     p_seg |-> [x \in KGST(d) |-> 0],
     theta |-> [x \in d.buses \X KT(d) |-> 0],
     flow |-> [x \in KL(d) \X KT(d) |-> 0],
     r_sp |-> [x \in KGT(d) |-> 0], r_ns |-> [x \in KGT(d) |-> 0]]

\* ---- the constraints, each as the set of points x it admits; sg is the
\* pair of seg_bounds and seg_cost
SegTotal(d, x, g, t) == SumOver(KS(d, g), [s \in KS(d, g) |-> x.p_seg[<<g, s, t>>]])
SegWidth(sg, g, s) == RatSub(sg.bounds[g][s][2], sg.bounds[g][s][1])

\* lines 123-131: the domains of the variables
Domains(d, x) ==
    /\ \A gt \in KGT(d) :
           /\ x.u[gt] \in {0, 1} /\ x.v[gt] \in {0, 1} /\ x.w[gt] \in {0, 1}
           /\ x.p[gt] >= 0 /\ x.r_sp[gt] >= 0 /\ x.r_ns[gt] >= 0
    /\ \A gst \in KGST(d) : x.p_seg[gst] >= 0

\* p is the first segment only (faulty variant)
SegSumFirst(d, x) ==
    \A g \in KG(d), t \in KT(d) : x.p[<<g, t>>] = x.p_seg[<<g, 1, t>>]
\* lines 135-137
SegSum(d, x) ==
    \A g \in KG(d), t \in KT(d) : x.p[<<g, t>>] = SegTotal(d, x, g, t)

\* p_seg bounded by the upper end of its segment (faulty variant)
SegBoundsToHi(d, sg, x) ==
    \A gst \in KGST(d) :
        RatLeq(Rat(x.p_seg[gst]), sg.bounds[gst[1]][gst[2]][2])
\* lines 140-142
SegBoundsCons(d, sg, x) ==
    \A gst \in KGST(d) :
        RatLeq(Rat(x.p_seg[gst]), SegWidth(sg, gst[1], gst[2]))

\* the lower limit without pmin (faulty variant)
GenLbZero(d, x) ==
    \A g \in KG(d), t \in KT(d) : x.p[<<g, t>>] >= 0
\* lines 145-146
GenLb(d, x) ==
    \A g \in KG(d), t \in KT(d) :
        x.p[<<g, t>>] - d.gens[g].pmin * x.u[<<g, t>>] >= 0
GenUb(d, x) ==
    \A g \in KG(d), t \in KT(d) :
        x.p[<<g, t>>] - d.gens[g].pmax * x.u[<<g, t>>] <= 0

\* line 149
SegCommit(d, x) ==
    \A g \in KG(d), t \in KT(d) :
        SegTotal(d, x, g, t) - d.gens[g].pmax * x.u[<<g, t>>] <= 0

\* lines 153-156
TAfter1(d) == {t \in KT(d) : t >= 2}
\* the ramp-up limit from the third period on (faulty variant)
RampUpFromThird(d, x) ==
    \A g \in KG(d), t \in {k \in KT(d) : k >= 3} :
        x.p[<<g, t>>] - x.p[<<g, t - 1>>] - d.gens[g].ramp_up <= 0
RampUpCons(d, x) ==
    \A g \in KG(d), t \in TAfter1(d) :
        x.p[<<g, t>>] - x.p[<<g, t - 1>>] - d.gens[g].ramp_up <= 0
\* the fall of the dispatch bounded by ramp_up (faulty variant)
RampDownByRampUp(d, x) ==
    \A g \in KG(d), t \in TAfter1(d) :
        x.p[<<g, t - 1>>] - x.p[<<g, t>>] - d.gens[g].ramp_up <= 0
RampDownCons(d, x) ==
    \A g \in KG(d), t \in TAfter1(d) :
        x.p[<<g, t - 1>>] - x.p[<<g, t>>] - d.gens[g].ramp_down <= 0

\* lines 159-162
PrevU(x, g, t) == IF t = 1 THEN 0 ELSE x.u[<<g, t - 1>>]
\* the startup link from the second period on (faulty variant)
StartLinkFromSecond(d, x) ==
    \A g \in KG(d), t \in TAfter1(d) :
        x.v[<<g, t>>] - x.u[<<g, t>>] + x.u[<<g, t - 1>>] >= 0
StartLink(d, x) ==
    \A g \in KG(d), t \in KT(d) :
        x.v[<<g, t>>] - x.u[<<g, t>>] + PrevU(x, g, t) >= 0
\* the shutdown link with the sign of the startup link (faulty variant)
ShutLinkAsStart(d, x) ==
    \A g \in KG(d), t \in KT(d) :
        x.w[<<g, t>>] - x.u[<<g, t>>] + PrevU(x, g, t) >= 0
ShutLink(d, x) ==
    \A g \in KG(d), t \in KT(d) :
        x.w[<<g, t>>] - PrevU(x, g, t) + x.u[<<g, t>>] >= 0

\* the windows of span 1 included (faulty variant)
MinUpIdxAll(d) ==
    {gt \in KGT(d) : gt[2] <= d.H - d.gens[gt[1]].min_up + 1}
\* lines 165-177: range(1, horizon - mu + 2) for mu > 1
MinUpIdx(d) ==
    {gt \in KGT(d) : d.gens[gt[1]].min_up > 1
                     /\ gt[2] <= d.H - d.gens[gt[1]].min_up + 1}
MinDownIdx(d) ==
    {gt \in KGT(d) : d.gens[gt[1]].min_down > 1
                     /\ gt[2] <= d.H - d.gens[gt[1]].min_down + 1}

\* lines 180 and 184: range(t, t + span)
WindowPeriods(t, span) == t .. t + span - 1
\* lines 178-185
WindowSum(f, g, t, span) ==
    SumOver(WindowPeriods(t, span), [k \in WindowPeriods(t, span) |-> f[<<g, k>>]])
\* the min-up windows without the last one (faulty variant)
MinUpConsBarLast(d, x) ==
    \A gt \in {y \in MinUpIdx(d) : y[2] < d.H - d.gens[y[1]].min_up + 1} :
        LET mu == d.gens[gt[1]].min_up
        IN  WindowSum(x.v, gt[1], gt[2], mu) - x.u[<<gt[1], gt[2] + mu - 1>>] <= 0
\* the window sums against u at the start of the window (faulty variants)
MinUpAtStart(d, x) ==
    \A gt \in MinUpIdx(d) :
        WindowSum(x.v, gt[1], gt[2], d.gens[gt[1]].min_up) - x.u[gt] <= 0
MinDownAtStart(d, x) ==
    \A gt \in MinDownIdx(d) :
        WindowSum(x.w, gt[1], gt[2], d.gens[gt[1]].min_down) + x.u[gt] <= 1
MinUpCons(d, x) ==
    \A gt \in MinUpIdx(d) :
        LET mu == d.gens[gt[1]].min_up
        IN  WindowSum(x.v, gt[1], gt[2], mu) - x.u[<<gt[1], gt[2] + mu - 1>>] <= 0
MinDownCons(d, x) ==
    \A gt \in MinDownIdx(d) :
        LET md == d.gens[gt[1]].min_down
        IN  WindowSum(x.w, gt[1], gt[2], md) + x.u[<<gt[1], gt[2] + md - 1>>] <= 1

\* lines 188-195
GenInj(d, x, b, t) ==
    LET at == {g \in KG(d) : d.gens[g].bus = b}
    IN  SumOver(at, [g \in at |-> x.p[<<g, t>>]])
\* the lines that start at b counted as inflow (faulty variant)
InflowFrom(d, x, b, t) ==
    LET into == {l \in KL(d) : d.lines[l].from_bus = b}
    IN  SumOver(into, [l \in into |-> x.flow[<<l, t>>]])
Inflow(d, x, b, t) ==
    LET into == {l \in KL(d) : d.lines[l].to_bus = b}
    IN  SumOver(into, [l \in into |-> x.flow[<<l, t>>]])
Outflow(d, x, b, t) ==
    LET outof == {l \in KL(d) : d.lines[l].from_bus = b}
    IN  SumOver(outof, [l \in outof |-> x.flow[<<l, t>>]])
BalanceIdx(d) == d.buses \X KT(d)
Balance(d, x) ==
    \A bt \in BalanceIdx(d) :
        LET b == bt[1]
            t == bt[2]
            rhs == d.demand[<<t, b>>] - d.ren[<<t, b>>]
        IN  GenInj(d, x, b, t) + Inflow(d, x, b, t) - Outflow(d, x, b, t) - rhs = 0

\* lines 198-204 (the reactance is an integer here, so the division by x is
\* moved to the other side)
DcFlow(d, x) ==
    \A l \in KL(d), t \in KT(d) :
        IF d.lines[l].reactance > 0
        THEN x.flow[<<l, t>>] * d.lines[l].reactance
                 = x.theta[<<d.lines[l].from_bus, t>>] - x.theta[<<d.lines[l].to_bus, t>>]
        ELSE x.flow[<<l, t>>] = 0

\* lines 207-209: the first of sorted(buses)
RefBus(d) == CHOOSE b \in d.buses : \A c \in d.buses : b <= c
Ref(d, x) ==
    d.buses # {} => \A t \in KT(d) : x.theta[<<RefBus(d), t>>] = 0

\* lines 212-213
LinePos(d, x) ==
    \A l \in KL(d), t \in KT(d) : x.flow[<<l, t>>] - d.lines[l].limit <= 0
LineNeg(d, x) ==
    \A l \in KL(d), t \in KT(d) : 0 - x.flow[<<l, t>>] - d.lines[l].limit <= 0

\* lines 217-221
SpinAvail(d, x) ==
    \A t \in KT(d) :
        SumOver(KG(d), [g \in KG(d) |->
            d.gens[g].pmax * x.u[<<g, t>>] - x.p[<<g, t>>]]) - d.rs[t] >= 0
SpinReq(d, x) ==
    \A t \in KT(d) :
        SumOver(KG(d), [g \in KG(d) |-> x.r_sp[<<g, t>>]]) - d.rs[t] >= 0
NsReq(d, x) ==
    \A t \in KT(d) :
        SumOver(KG(d), [g \in KG(d) |-> x.r_ns[<<g, t>>]]) - d.rns[t] >= 0

\* lines 224-225
RSpBound(d, x) ==
    \A g \in KG(d), t \in KT(d) :
        x.r_sp[<<g, t>>] - (d.gens[g].pmax - x.p[<<g, t>>]) <= 0
RNsBound(d, x) ==
    \A g \in KG(d), t \in KT(d) :
        x.r_ns[<<g, t>>] - (d.gens[g].pmax * (1 - x.u[<<g, t>>])
                            + (d.gens[g].pmax - x.p[<<g, t>>])) <= 0

\* lines 133-225: every constraint of the model
BuiltConstraints(d, sg, x) ==
    /\ Domains(d, x)
    /\ SegSum(d, x)
    /\ SegBoundsCons(d, sg, x)
    /\ GenLb(d, x)
    /\ GenUb(d, x)
    /\ SegCommit(d, x)
    /\ RampUpCons(d, x)
    /\ RampDownCons(d, x)
    /\ StartLink(d, x)
    /\ ShutLink(d, x)
    /\ MinUpCons(d, x)
    /\ MinDownCons(d, x)
    /\ Balance(d, x)
    /\ DcFlow(d, x)
    /\ Ref(d, x)
    /\ LinePos(d, x)
    /\ LineNeg(d, x)
    /\ SpinAvail(d, x)
    /\ SpinReq(d, x)
    /\ NsReq(d, x)
    /\ RSpBound(d, x)
    /\ RNsBound(d, x)

\* lines 228-233: the objective, a rational
RatAdd(q, r) == RatNorm(<<q[1] * r[2] + r[1] * q[2], q[2] * r[2]>>)
RECURSIVE RatSumOver(_, _)
RatSumOver(S, f) ==
    IF S = {} THEN Rat(0)
    ELSE LET e == CHOOSE y \in S : TRUE IN RatAdd(f[e], RatSumOver(S \ {e}, f))
ObjRule(d, sg, x) ==
    LET fuel == RatSumOver(KGST(d), [gst \in KGST(d) |->
                    <<sg.cost[gst[1]][gst[2]][1] * x.p_seg[gst],
                      sg.cost[gst[1]][gst[2]][2]>>])
        start == SumOver(KGT(d), [gt \in KGT(d) |->
                    d.gens[gt[1]].startup_cost * x.v[gt]])
        shut == SumOver(KGT(d), [gt \in KGT(d) |->
                    d.gens[gt[1]].shutdown_cost * x.w[gt]])
    IN  RatAdd(fuel, Rat(start + shut))

NoUcData == [H |-> 0, nseg |-> 0, buses |-> {}, gens |-> <<>>, lines |-> <<>>]

UcIdle ==
    /\ kpc = "idle"
    /\ kdata = NoUcData
    /\ kseg = <<>>
    /\ kpt = <<>>
    /\ ksat = FALSE
    /\ kobj = Rat(0)

\* lines 59-78 and 108-120
KBuild ==
    /\ kpc = "data"
    /\ kseg' = [bounds |-> SegBounds(kdata), cost |-> SegCost(kdata)]
    /\ kpc' = "built"
    /\ UNCHANGED <<kdata, kpt, ksat, kobj>>
    /\ UNCHANGED <<solveVars, buildVars, exportVars, callVars>>

\* A backend loads kpt into the variables: the constraints and the
\* objective of lines 133-233 are evaluated there.
KEvaluate ==
    /\ kpc = "built"
    /\ ksat' = BuiltConstraints(kdata, kseg, kpt)
    /\ kobj' = ObjRule(kdata, kseg, kpt)
    /\ kpc' = "evaluated"
    /\ UNCHANGED <<kdata, kseg, kpt>>
    /\ UNCHANGED <<solveVars, buildVars, exportVars, callVars>>

KNext ==
    \/ KBuild
    \/ KEvaluate

\* ------------------------------------------------------- export_results
ExportIdle ==
    /\ xpc = "none"
    /\ xrows = {}
    /\ xlmp_rows = {}

\* int() of a rational q >= 0: the fraction is dropped
PyInt(q) == q[1] \div q[2]

\* the lmp argument: the map solve_uc returned, an empty dict before that
LmpArgument == IF result = {} THEN <<>> ELSE (CHOOSE r \in result : TRUE).lmp
\* lmp.get((b, t), None)
LmpGet(lmp, bt) == IF bt \in DOMAIN lmp THEN lmp[bt] ELSE NoVal

\* lines 321-327: one record per generator and period; p is the value the
\* last solve loaded
ScheduleRows ==
    {[gen |-> gt[1], time |-> gt[2],
      u |-> PyInt(val[<<"u", gt[1], gt[2]>>]),
      p |-> cont["p"],
      v |-> PyInt(val[<<"v", gt[1], gt[2]>>]),
      w |-> PyInt(val[<<"w", gt[1], gt[2]>>])] : gt \in GT}
\* line 330
LmpRows ==
    {[bus |-> bt[1], time |-> bt[2], lmp |-> LmpGet(LmpArgument, bt)] : bt \in BT}

\* lines 318-332: export_results on the model as solve_uc has left it;
\* value() of a variable without a value raises
ExportResults ==
    /\ xpc = "none"
    /\ pc \in {"milp_solved", "fixed", "lp_solved", "returned"}
    /\ IF HasValues
       THEN /\ xrows' = ScheduleRows
            /\ xlmp_rows' = LmpRows
            /\ xpc' = "exported"
       ELSE /\ xpc' = "raised"
            /\ UNCHANGED <<xrows, xlmp_rows>>
    /\ UNCHANGED <<solveVars, buildVars, ucVars, callVars>>

Init == SolveInit /\ BuildIdle /\ UcIdle /\ ExportIdle /\ ArgsRecorded
Next == SolveNext
Spec == Init /\ [][Next]_vars

InitBuild == BuildInit /\ SolveIdle /\ UcIdle /\ ExportIdle /\ ArgsRecorded
SpecBuild == InitBuild /\ [][BuildNext]_vars

\* solve_uc with its default arguments, and export_results on its model
InitExport ==
    /\ SolveInit /\ BuildIdle /\ UcIdle /\ ExportIdle
    /\ solver_candidates = NoCandidates
    /\ solver_name = None
    /\ ArgsRecorded
ExportNext ==
    \/ SolveNext
    \/ ExportResults
SpecExport == InitExport /\ [][ExportNext]_vars
\* ------------------------------------------- data and points of the model
\* One bus, one generator g1, no line; dem, rs and rns are functions of t.
OneBus(H, nseg, gen, dem, rs, rns) ==
    [H |-> H, nseg |-> nseg, buses |-> {1},
     gens |-> [g \in {"g1"} |-> gen], lines |-> <<>>,
     demand |-> [tb \in (1 .. H) \X {1} |-> dem[tb[1]]],
     ren |-> [tb \in (1 .. H) \X {1} |-> 0],
     rs |-> rs, rns |-> rns]
Zeros(H) == [t \in 1 .. H |-> 0]

\* A point of the one-generator model from the values of u, v, w, p, p_seg,
\* r_sp and r_ns (functions of t; ps of <<s, t>>).
GenPoint(d, u, v, w, pw, ps, rsp, rns) ==
    [u |-> [x \in KGT(d) |-> u[x[2]]], v |-> [x \in KGT(d) |-> v[x[2]]],
     w |-> [x \in KGT(d) |-> w[x[2]]], p |-> [x \in KGT(d) |-> pw[x[2]]],
     p_seg |-> [x \in KGST(d) |-> ps[<<x[2], x[3]>>]],
     theta |-> [x \in d.buses \X KT(d) |-> 0],
     flow |-> [x \in KL(d) \X KT(d) |-> 0],
     r_sp |-> [x \in KGT(d) |-> rsp[x[2]]], r_ns |-> [x \in KGT(d) |-> rns[x[2]]]]

KStart ==
    /\ kpc = "data"
    /\ kseg = <<>>
    /\ ksat = FALSE
    /\ kobj = Rat(0)

\* ---- segments and marginal costs
SegMaxP == 3           \* largest pmin and pmax
MaxSeg == 3            \* largest nseg
CostAs == {Absent, <<0>>, <<1>>}
CostBs == {Absent, <<20>>}

InitSeg ==
    /\ SolveIdle /\ BuildIdle /\ KStart /\ ExportIdle /\ ArgsRecorded
    /\ \E pmin \in 0 .. SegMaxP, pmax \in 0 .. SegMaxP, n \in 1 .. MaxSeg,
          a \in CostAs, b \in CostBs :
          kdata = OneBus(1, n, Gen(1, pmin, pmax, pmax, pmax, 1, 1, a, b),
                         Zeros(1), Zeros(1), Zeros(1))
    /\ kpt = ZeroPoint(kdata)
SpecSeg == InitSeg /\ [][KNext]_vars

KBuilt == kpc \in {"built", "evaluated"}
KFeasible == kpc = "evaluated" /\ ksat

\* ---- dispatch of one generator in one period: the demand is the dispatch,
\* no reserve is asked for or allocated, v = w = 1
DispMaxP == 2          \* largest pmin, pmax and dispatch
DispSeg == 2           \* largest nseg
DispVals == -1 .. DispMaxP

InitDispatch ==
    /\ SolveIdle /\ BuildIdle /\ KStart /\ ExportIdle /\ ArgsRecorded
    /\ \E pmin \in 0 .. DispMaxP, pmax \in 0 .. DispMaxP, n \in 1 .. DispSeg,
          u \in {0, 1}, pw \in 0 .. DispMaxP,
          ps \in [(1 .. DispSeg) \X {1} -> DispVals] :
          /\ kdata = OneBus(1, n, Gen(1, pmin, pmax, pmax, pmax, 1, 1, <<0>>, <<20>>),
                            <<pw>>, Zeros(1), Zeros(1))
          /\ kpt = GenPoint(kdata, <<u>>, <<1>>, <<1>>, <<pw>>, ps, Zeros(1), Zeros(1))
SpecDispatch == InitDispatch /\ [][KNext]_vars

\* ---- ramping of one generator over the horizon: pmin 0 or 1, one segment,
\* the demand is the dispatch
RampH == 2             \* periods
RampMaxP == 3          \* pmax, largest ramp limit and dispatch
OnOff(H) == [1 .. H -> {0, 1}]
Ones(H) == [t \in 1 .. H |-> 1]
RampPmins == {0, 1}

InitRamp ==
    /\ SolveIdle /\ BuildIdle /\ KStart /\ ExportIdle /\ ArgsRecorded
    /\ \E pmin \in RampPmins, ru \in 0 .. RampMaxP, rd \in 0 .. RampMaxP,
          u \in OnOff(RampH), pw \in [1 .. RampH -> 0 .. RampMaxP] :
          /\ kdata = OneBus(RampH, 1, Gen(1, pmin, RampMaxP, ru, rd, 1, 1, <<0>>, <<20>>),
                            pw, Zeros(RampH), Zeros(RampH))
          /\ kpt = GenPoint(kdata, u, Ones(RampH), Ones(RampH), pw,
                            [st \in {1} \X (1 .. RampH) |-> pw[st[2]]],
                            Zeros(RampH), Zeros(RampH))
SpecRamp == InitRamp /\ [][KNext]_vars

\* ---- commitment of one generator over the horizon: nothing is dispatched
\* (pmin = 0, demand 0), u, v and w take every binary value
CommitH == 3           \* periods; min_up and min_down range over 1 .. CommitH + 1

InitCommit ==
    /\ SolveIdle /\ BuildIdle /\ KStart /\ ExportIdle /\ ArgsRecorded
    /\ \E mu \in 1 .. CommitH + 1, md \in 1 .. CommitH + 1,
          u \in OnOff(CommitH), v \in OnOff(CommitH), w \in OnOff(CommitH) :
          /\ kdata = OneBus(CommitH, 1, Gen(1, 0, 1, 1, 1, mu, md, <<0>>, <<20>>),
                            Zeros(CommitH), Zeros(CommitH), Zeros(CommitH))
          /\ kpt = GenPoint(kdata, u, v, w, Zeros(CommitH),
                            [st \in {1} \X (1 .. CommitH) |-> 0],
                            Zeros(CommitH), Zeros(CommitH))
SpecCommit == InitCommit /\ [][KNext]_vars

\* every binary value of u, v and w for the data d, nothing dispatched
CommitPoints(d) ==
    {GenPoint(d, u, v, w, Zeros(d.H), [st \in {1} \X (1 .. d.H) |-> 0],
              Zeros(d.H), Zeros(d.H)) :
        u \in OnOff(d.H), v \in OnOff(d.H), w \in OnOff(d.H)}

\* ---- two buses, generators g1 and g2 (pmin = 0, committed, one segment)
\* and the line l1 in one period
BalMaxP == 1           \* pmax and the line limit; demand ranges to BalMaxP + 1
BalBuses == {1, 2}
BalFlows == {-1, 0, 1}
BalAngles == {-1, 0, 1}
BalRen == {0, 1}
BalReactances == {0, 1}

TwoBus(bus1, bus2, from, to, reactance, dem, ren) ==
    [H |-> 1, nseg |-> 1, buses |-> BalBuses,
     gens |-> [g \in {"g1", "g2"} |->
                  Gen(IF g = "g1" THEN bus1 ELSE bus2, 0, BalMaxP, BalMaxP, BalMaxP,
                      1, 1, <<0>>, <<20>>)],
     lines |-> [l \in {"l1"} |->
                  [from_bus |-> from, to_bus |-> to, reactance |-> reactance,
                   limit |-> BalMaxP]],
     demand |-> [tb \in {1} \X BalBuses |-> dem[tb[2]]],
     ren |-> [tb \in {1} \X BalBuses |-> ren[tb[2]]],
     rs |-> Zeros(1), rns |-> Zeros(1)]

TwoBusPoint(d, pw, fl, angle) ==
    [u |-> [x \in KGT(d) |-> 1], v |-> [x \in KGT(d) |-> 1],
     w |-> [x \in KGT(d) |-> 1], p |-> [x \in KGT(d) |-> pw[x[1]]],
     p_seg |-> [x \in KGST(d) |-> pw[x[1]]],
     theta |-> [x \in d.buses \X KT(d) |-> IF x[1] = 1 THEN 0 ELSE angle],
     flow |-> [x \in KL(d) \X KT(d) |-> fl],
     r_sp |-> [x \in KGT(d) |-> 0], r_ns |-> [x \in KGT(d) |-> 0]]

InitBalance ==
    /\ SolveIdle /\ BuildIdle /\ KStart /\ ExportIdle /\ ArgsRecorded
    /\ \E bus1 \in BalBuses, bus2 \in BalBuses, from \in BalBuses, to \in BalBuses,
          reactance \in BalReactances,
          dem \in [BalBuses -> 0 .. BalMaxP + 1], ren \in [BalBuses -> BalRen],
          pw \in [{"g1", "g2"} -> 0 .. BalMaxP], fl \in BalFlows, angle \in BalAngles :
          /\ kdata = TwoBus(bus1, bus2, from, to, reactance, dem, ren)
          /\ kpt = TwoBusPoint(kdata, pw, fl, angle)
SpecBalance == InitBalance /\ [][KNext]_vars

\* ---- reserves of one generator in one period: pmin = 0, one segment, the
\* demand is the dispatch
ResMaxP == 2           \* largest pmax, dispatch and spinning allocation
ResReqs == {0, 1}

InitReserve ==
    /\ SolveIdle /\ BuildIdle /\ KStart /\ ExportIdle /\ ArgsRecorded
    /\ \E pmax \in 1 .. ResMaxP, u \in {0, 1}, pw \in 0 .. ResMaxP,
          rsp \in 0 .. ResMaxP, rnsp \in 0 .. 2 * ResMaxP,
          rs \in ResReqs, rns \in ResReqs :
          /\ kdata = OneBus(1, 1, Gen(1, 0, pmax, pmax, pmax, 1, 1, <<0>>, <<20>>),
                            <<pw>>, <<rs>>, <<rns>>)
          /\ kpt = GenPoint(kdata, <<u>>, <<1>>, <<1>>, <<pw>>,
                            [st \in {1} \X {1} |-> pw], <<rsp>>, <<rnsp>>)
SpecReserve == InitReserve /\ [][KNext]_vars

\* ---- one bus, one generator with pmin = 0, pmax = 200, a = 0, b = 20, no
\* startup or shutdown cost, no line, no reserve, demand 100 in every period.
\* Powers are multiples of 100.
ScenH == 2             \* periods
ScenSegs == {1, 2}
ScenarioA(H, nseg) ==
    OneBus(H, nseg, Gen(1, 0, 200, 200, 200, 1, 1, <<0>>, <<20>>),
           [t \in 1 .. H |-> 100], Zeros(H), Zeros(H))
PowerGrid == {0, 100, 200}

\* the values of p_seg inside their boxes
SegGridPoints(d, bounds) ==
    {ps \in [KGST(d) -> PowerGrid] :
        \A gst \in KGST(d) :
            RatLeq(Rat(ps[gst]), RatSub(bounds[gst[1]][gst[2]][2],
                                        bounds[gst[1]][gst[2]][1]))}
\* the point with p_seg = ps, p the sum of its segments, no reserve allocated
DispatchPoint(d, u, v, w, ps) ==
    [u |-> u, v |-> v, w |-> w,
     p |-> [gt \in KGT(d) |->
              SumOver(KS(d, gt[1]), [s \in KS(d, gt[1]) |-> ps[<<gt[1], s, gt[2]>>]])],
     p_seg |-> ps,
     theta |-> [x \in d.buses \X KT(d) |-> 0],
     flow |-> [x \in KL(d) \X KT(d) |-> 0],
     r_sp |-> [gt \in KGT(d) |-> 0], r_ns |-> [gt \in KGT(d) |-> 0]]

\* lines 278-303: the LP that is solved with u, v, w fixed at their values
\* in x; its optimal value, <<>> when it has no feasible point
LpFeasible(d, sg, x) ==
    {y \in {DispatchPoint(d, x.u, x.v, x.w, ps) : ps \in SegGridPoints(d, sg.bounds)} :
        BuiltConstraints(d, sg, y)}
LpOptimum(d, sg, x) ==
    LET F == LpFeasible(d, sg, x)
    IN  IF F = {} THEN <<>>
        ELSE LET best == CHOOSE y \in F :
                     \A z \in F : RatLeq(ObjRule(d, sg, y), ObjRule(d, sg, z))
             IN  ObjRule(d, sg, best)

\* lines 306-311: the dual of balance[b, t] that the LP backend reports, the
\* rate at which the optimal value grows with the right-hand side of the
\* constraint (here over a step of 100)
BalanceDual(d, sg, x, b, t) ==
    LET base == LpOptimum(d, sg, x)
        more == LpOptimum([d EXCEPT !.demand[<<t, b>>] = @ + 100], sg, x)
    IN  IF base = <<>> \/ more = <<>> THEN <<>>
        ELSE LET diff == RatSub(more, base) IN <<diff[1], diff[2] * 100>>

InitScenarioA ==
    /\ SolveIdle /\ BuildIdle /\ KStart /\ ExportIdle /\ ArgsRecorded
    /\ \E n \in ScenSegs : kdata = ScenarioA(ScenH, n)
    /\ \E u \in [KGT(kdata) -> {0, 1}], v \in [KGT(kdata) -> {0, 1}],
          w \in [KGT(kdata) -> {0, 1}],
          ps \in SegGridPoints(kdata, SegBounds(kdata)) :
          kpt = DispatchPoint(kdata, u, v, w, ps)
SpecScenarioA == InitScenarioA /\ [][KNext]_vars

\* ------------------------------------------------------- observation
MilpCalls == SelectSeq(calls, LAMBDA c : c.stage = "milp")
LpCalls == SelectSeq(calls, LAMBDA c : c.stage = "lp")
Terminal == pc \in {"returned", "raised"}
AllFixed == \A x \in BinVars : fixed[x]
NoneFixed == \A x \in BinVars : ~fixed[x]

\* The states of the orchestrator's state machine (spec section 4.3).
Stage(p) ==
    CASE p \in {"start", "milp"} -> "Unsolved"
      [] p = "milp_solved" -> "MILP-Solved"
      [] p \in {"fixed", "lp_retry"} -> "Binaries-Fixed"
      [] p \in {"lp_solved", "returned"} -> "LP-Resolved"
      [] p = "raised" -> "Failed"

\* ------------------------------------------------------- claims
\* C1: in the MILP stage the candidates are attempted in list order: the
\* i-th MILP call is made with the i-th candidate, every call before the last
\* one raised, the loop goes on to the next candidate while calls raise, and
\* it is left (for good) at the first call that returns.
C1_CandidatesInOrder ==
    pc # "start" =>
        LET m == MilpCalls
        IN  /\ Len(m) <= Len(solver_candidates)
            /\ \A i \in 1 .. Len(m) :
                   /\ m[i].solver = solver_candidates[i]
                   /\ i < Len(m) => m[i].outcome = "raise"
            /\ pc = "milp" =>
                   /\ idx = Len(m) + 1
                   /\ \A i \in 1 .. Len(m) : m[i].outcome = "raise"
            /\ pc # "milp" =>
                   \/ Len(m) > 0 /\ m[Len(m)].outcome = "return"
                   \/ /\ Len(m) = Len(solver_candidates)
                      /\ \A i \in 1 .. Len(m) : m[i].outcome = "raise"

C1_Witness ==
    /\ pc = "returned"
    /\ Len(solver_candidates) = 3
    /\ Len(MilpCalls) = 2
    /\ MilpCalls[1].outcome = "raise"
    /\ MilpCalls[2].outcome = "return"
    /\ MilpCalls[1].solver # MilpCalls[2].solver

\* C2: when every candidate failed in the MILP stage, the exception that
\* leaves solve_uc names the failure of every attempted backend, and nothing
\* is returned.
C2_AllFailuresEnumerated ==
    (pc = "raised" /\ used_solver = None) =>
        /\ result = {}
        /\ \A e \in exc : e.causes = 1 .. Len(calls)

\* C3: the run moves Unsolved -> MILP-Solved -> Binaries-Fixed -> LP-Resolved
\* or into Failed, and stops nowhere else; no u, v, w is fixed before a MILP
\* call has returned, no LP call is made before all of them are fixed, and an
\* LMP map exists only after an LP call has returned.
StageStep(a, b) ==
    \/ a = b /\ a \in {"Unsolved", "Binaries-Fixed", "LP-Resolved"}
    \/ a = "Unsolved" /\ b \in {"MILP-Solved", "Failed"}
    \/ a = "MILP-Solved" /\ b \in {"Binaries-Fixed", "Failed"}
    \/ a = "Binaries-Fixed" /\ b \in {"LP-Resolved", "Failed"}

C3_StageInv ==
    /\ ~NoneFixed => \E i \in 1 .. Len(MilpCalls) : MilpCalls[i].outcome = "return"
    /\ Len(LpCalls) > 0 => AllFixed
    /\ Stage(pc) \in {"Binaries-Fixed", "LP-Resolved"} => AllFixed
    /\ result # {} =>
           /\ Stage(pc) = "LP-Resolved"
           /\ calls[Len(calls)].stage = "lp"
           /\ calls[Len(calls)].outcome = "return"
    /\ ~Terminal => ENABLED Next
    /\ Terminal => ~ENABLED Next

C3_StageOrder ==
    /\ []C3_StageInv
    /\ [][StageStep(Stage(pc), Stage(pc'))]_vars

C3_Witness ==
    /\ pc = "returned"
    /\ AllFixed
    /\ Len(MilpCalls) = 1
    /\ Len(LpCalls) = 1
    /\ result # {}

\* C4: the step MILP-Solved -> Binaries-Fixed fixes every u, v, w at an
\* integer nearest to its solved value, makes no solver call and leaves the
\* continuous variables as they were.
C4_FixIsRounding ==
    [][(pc = "milp_solved" /\ pc' = "fixed") =>
          /\ \A x \in BinVars :
                 /\ fixed'[x]
                 /\ val'[x][2] = 1
                 /\ 2 * Abs(val'[x][1] * val[x][2] - val[x][1]) <= val[x][2]
          /\ calls' = calls
          /\ cont' = cont
          /\ dual' = dual]_vars

C4_Witness ==
    /\ pc = "fixed"
    /\ AllFixed
    /\ \E x, y \in BinVars : val[x] = <<1, 1>> /\ val[y] = <<0, 1>>
    /\ \A c \in ContNames : cont[c] = "milp"
    /\ Len(calls) = 1

\* C5: the first LP call uses the backend whose MILP call returned; when it
\* raises, exactly one more LP call is made, with a backend that has not been
\* called before in this run.
C5_LpRetryUntried ==
    LET lp == LpCalls
        m == MilpCalls
    IN  /\ Len(lp) >= 1 => lp[1].solver = m[Len(m)].solver
        /\ Len(lp) >= 2 =>
               /\ lp[1].outcome = "raise"
               /\ lp[2].solver \notin {m[i].solver : i \in 1 .. Len(m)}
        /\ (Terminal /\ Len(lp) >= 1 /\ lp[1].outcome = "raise") => Len(lp) = 2

\* C6: when both LP calls raised after a MILP call returned, solve_uc does not
\* fail: it returns the schedule with every LMP unavailable.
C6_ScheduleSurvivesLpFailure ==
    (Terminal /\ Len(LpCalls) = 2 /\ \A i \in 1 .. 2 : LpCalls[i].outcome = "raise") =>
        /\ pc = "returned"
        /\ \A r \in result : \A bt \in BT : r.lmp[bt] = NoVal
        /\ result # {}

\* C7: a MILP call that returns with an infeasible status counts as a failed
\* attempt: no binary is fixed and nothing is returned from it, and the next
\* candidate is tried.
C7_InfeasibleIsFailure ==
    \A i \in 1 .. Len(MilpCalls) :
        MilpCalls[i].status = "infeasible" =>
            /\ NoneFixed
            /\ result = {}
            /\ (Terminal /\ i < Len(solver_candidates)) => Len(MilpCalls) > i

\* C8: when the first candidate raises and the second returns for the MILP
\* and for the LP, solve_uc returns (LP-Resolved) and the returned result
\* names the second backend.
C8_FallbackRecorded ==
    (/\ Terminal
     /\ Len(MilpCalls) = 2
     /\ MilpCalls[1].outcome = "raise"
     /\ MilpCalls[2].status = "optimal"
     /\ Len(LpCalls) = 1
     /\ LpCalls[1].status = "optimal") =>
        /\ pc = "returned"
        /\ LpCalls[1].solver = solver_candidates[2]
        /\ \A r \in result :
               /\ "backend" \in DOMAIN r
               /\ r.backend = solver_candidates[2]

\* C9: after an LP call has returned, the returned LMP map has exactly the
\* keys B x T, and the entry of (b, t) is the dual of balance[b, t], or None
\* when the suffix holds no dual for it.
C9_LmpIsBalanceDual ==
    pc = "returned" =>
        /\ Cardinality(result) = 1
        /\ \A r \in result :
               /\ DOMAIN r.lmp = B \X T
               /\ \A b \in B, t \in T :
                      r.lmp[<<b, t>>] = dual[<<"balance", b, t>>]

C9_Witness ==
    /\ pc = "returned"
    /\ \E r \in result : \E x, y \in BT :
           /\ r.lmp[x] = NoVal
           /\ r.lmp[y] = <<20>>
    /\ dual[<<"spin_req", 1>>] # NoVal
\* C10: build_uc_model raises, before any decision variable exists and
\* without returning a model, whenever the generator or the line names a bus
\* outside the bus list, pmax < pmin, a ramp limit or a cost coefficient is
\* negative, or min_up or min_down is below 1.
InvalidData(d) ==
    \/ d.gen_bus \notin Buses
    \/ d.line_from \notin Buses
    \/ d.line_to \notin Buses
    \/ d.pmax < d.pmin
    \/ d.ramp_up < 0
    \/ d.ramp_down < 0
    \/ d.cost_a < 0
    \/ d.cost_b < 0
    \/ d.min_up < 1
    \/ d.min_down < 1

C10_InvalidDataRejected ==
    (bpc # "idle" /\ InvalidData(bdata)) =>
        /\ "vars" \notin bcomponents
        /\ ~breturned
        /\ bpc \notin {"params", "vars", "built", "returned"}
\* C11: for pmin < pmax and N >= 1 segments, piecewise_segments returns N
\* ranges from pmin to pmax, each starting where the one before ends, all of
\* width (pmax - pmin)/N; for pmax <= pmin it returns the one range
\* (pmin, pmax).
C11_EvenPartition ==
    KBuilt =>
        \A g \in KG(kdata) :
            LET segs == kseg.bounds[g]
                pmin == kdata.gens[g].pmin
                pmax == kdata.gens[g].pmax
                N == kdata.nseg
            IN  IF pmin < pmax
                THEN /\ Len(segs) = N
                     /\ RatEq(segs[1][1], Rat(pmin))
                     /\ RatEq(segs[N][2], Rat(pmax))
                     /\ \A i \in 1 .. N - 1 : RatEq(segs[i][2], segs[i + 1][1])
                     /\ \A i \in 1 .. N :
                            RatEq(RatSub(segs[i][2], segs[i][1]), <<pmax - pmin, N>>)
                ELSE segs = << <<Rat(pmin), Rat(pmax)>> >>

C11_Witness ==
    /\ kpc = "built"
    /\ kdata.nseg = 3
    /\ kdata.gens["g1"].pmin = 1
    /\ kdata.gens["g1"].pmax = 3
    /\ Len(kseg.bounds["g1"]) = 3
    /\ RatEq(kseg.bounds["g1"][2][1], <<5, 3>>)

\* C12: the marginal cost of a segment is 2*a*midpoint + b when a is present
\* (b taken as 0 when absent), b when only b is present, and 0 otherwise.
C12_MarginalCost ==
    KBuilt =>
        \A g \in KG(kdata) : \A s \in 1 .. Len(kseg.bounds[g]) :
            LET a == kdata.gens[g].cost_a
                b == kdata.gens[g].cost_b
                lo == kseg.bounds[g][s][1]
                hi == kseg.bounds[g][s][2]
                b0 == IF b = Absent THEN 0 ELSE b[1]
                mc == kseg.cost[g][s]
            IN  IF a # Absent
                THEN \* mid = (lo + hi)/2, so 2*a*mid = a*(lo + hi)
                     RatEq(mc, RatAdd(<<a[1] * RatAdd(lo, hi)[1], RatAdd(lo, hi)[2]>>,
                                      Rat(b0)))
                ELSE RatEq(mc, Rat(b0))

\* C13: in every point that satisfies the built constraints, p(g,t) is the
\* sum of p_seg(g,s,t) over the generator's segments, and every p_seg(g,s,t)
\* lies in [0, seg_hi(g,s) - seg_lo(g,s)].
C13_SegmentsAddUp ==
    KFeasible =>
        \A g \in KG(kdata), t \in KT(kdata) :
            LET segs == kseg.bounds[g]
                S == 1 .. Len(segs)
            IN  /\ kpt.p[<<g, t>>] = SumOver(S, [s \in S |-> kpt.p_seg[<<g, s, t>>]])
                /\ \A s \in S :
                       /\ kpt.p_seg[<<g, s, t>>] >= 0
                       /\ RatLeq(Rat(kpt.p_seg[<<g, s, t>>]),
                                 RatSub(segs[s][2], segs[s][1]))

C13_Witness ==
    /\ KFeasible
    /\ Len(kseg.bounds["g1"]) = 2
    /\ kpt.p[<<"g1", 1>>] = 2
    /\ kpt.p_seg[<<"g1", 1, 1>>] = 1
    /\ kpt.p_seg[<<"g1", 2, 1>>] = 1

\* C14: in every point that satisfies the built constraints,
\* pmin(g)*u(g,t) <= p(g,t) <= pmax(g)*u(g,t), so 0 <= p(g,t) <= pmax(g), and
\* with u(g,t) = 0 the dispatch and every segment power are 0.
C14_DispatchWithinCommitment ==
    KFeasible =>
        \A g \in KG(kdata), t \in KT(kdata) :
            LET gen == kdata.gens[g]
                pw == kpt.p[<<g, t>>]
                on == kpt.u[<<g, t>>]
            IN  /\ gen.pmin * on <= pw
                /\ pw <= gen.pmax * on
                /\ 0 <= pw /\ pw <= gen.pmax
                /\ on = 0 =>
                       /\ pw = 0
                       /\ \A s \in 1 .. Len(kseg.bounds[g]) : kpt.p_seg[<<g, s, t>>] = 0

C14_Witness ==
    /\ KFeasible
    /\ kdata.gens["g1"].pmin = 1
    /\ kdata.gens["g1"].pmax = 2
    /\ kpt.u[<<"g1", 1>>] = 0
    /\ kpt.p[<<"g1", 1>>] = 0

\* C15: in every point that satisfies the built constraints, for every
\* generator and every period t >= 2 the dispatch rises by at most ramp_up
\* and falls by at most ramp_down from period t-1 to period t.
C15_RampLimits ==
    KFeasible =>
        \A g \in KG(kdata), t \in 2 .. kdata.H :
            /\ kpt.p[<<g, t>>] - kpt.p[<<g, t - 1>>] <= kdata.gens[g].ramp_up
            /\ kpt.p[<<g, t - 1>>] - kpt.p[<<g, t>>] <= kdata.gens[g].ramp_down

C15_Witness ==
    /\ KFeasible
    /\ kdata.gens["g1"].ramp_up = 1
    /\ kpt.p[<<"g1", 1>>] = 1
    /\ kpt.p[<<"g1", 2>>] = 2

\* C16: for a generator with min_up > 1 and a period t whose window
\* [t, t + min_up - 1] lies inside the horizon, every point that satisfies
\* the built constraints (u, v, w binary) with v(g,t) = 1 has u(g,k) = 1 for
\* every k of the window.
C16_MinUpWindow ==
    KFeasible =>
        \A g \in KG(kdata), t \in KT(kdata) :
            LET mu == kdata.gens[g].min_up
            IN  (mu > 1 /\ t + mu - 1 <= kdata.H /\ kpt.v[<<g, t>>] = 1)
                    => \A k \in t .. t + mu - 1 : kpt.u[<<g, k>>] = 1

C16_Witness ==
    /\ KFeasible
    /\ kdata.gens["g1"].min_up = 2
    /\ kpt.u[<<"g1", 1>>] = 0
    /\ kpt.v[<<"g1", 2>>] = 1
    /\ kpt.u[<<"g1", 2>>] = 1
    /\ kpt.u[<<"g1", 3>>] = 1

\* C17: for a generator with min_down > 1 and a period t whose window
\* [t, t + min_down - 1] lies inside the horizon, every point that satisfies
\* the built constraints (u, v, w binary) with w(g,t) = 1 has u(g,k) = 0 for
\* every k of the window.
C17_MinDownWindow ==
    KFeasible =>
        \A g \in KG(kdata), t \in KT(kdata) :
            LET md == kdata.gens[g].min_down
            IN  (md > 1 /\ t + md - 1 <= kdata.H /\ kpt.w[<<g, t>>] = 1)
                    => \A k \in t .. t + md - 1 : kpt.u[<<g, k>>] = 0

C17_Witness ==
    /\ KFeasible
    /\ kdata.gens["g1"].min_down = 2
    /\ kpt.u[<<"g1", 1>>] = 1
    /\ kpt.w[<<"g1", 2>>] = 1
    /\ kpt.u[<<"g1", 2>>] = 0
    /\ kpt.u[<<"g1", 3>>] = 0

\* C18: in every point that satisfies the built constraints, at every bus b
\* and period t the dispatch of the generators at b, plus the flow of the
\* lines ending at b, minus the flow of the lines starting at b, equals
\* demand(b,t) - renewable(b,t); there is one balance constraint for each
\* (bus, period) pair.
C18_NodalBalance ==
    KFeasible =>
        /\ \A b \in kdata.buses, t \in 1 .. kdata.H :
               LET at == {g \in DOMAIN kdata.gens : kdata.gens[g].bus = b}
                   ending == {l \in DOMAIN kdata.lines : kdata.lines[l].to_bus = b}
                   starting == {l \in DOMAIN kdata.lines : kdata.lines[l].from_bus = b}
               IN  SumOver(at, [g \in at |-> kpt.p[<<g, t>>]])
                     + SumOver(ending, [l \in ending |-> kpt.flow[<<l, t>>]])
                     - SumOver(starting, [l \in starting |-> kpt.flow[<<l, t>>]])
                   = kdata.demand[<<t, b>>] - kdata.ren[<<t, b>>]
        /\ BalanceIdx(kdata) = kdata.buses \X (1 .. kdata.H)
        /\ Cardinality(BalanceIdx(kdata)) = Cardinality(kdata.buses) * kdata.H

C18_Witness ==
    /\ KFeasible
    /\ kdata.gens["g1"].bus = 1 /\ kdata.gens["g2"].bus = 1
    /\ kdata.lines["l1"].from_bus = 1 /\ kdata.lines["l1"].to_bus = 2
    /\ kpt.flow[<<"l1", 1>>] = 1
    /\ kpt.p[<<"g1", 1>>] = 1 /\ kpt.p[<<"g2", 1>>] = 1
    /\ kdata.demand[<<1, 2>>] = 2 /\ kdata.ren[<<1, 2>>] = 1

\* C19: in every point that satisfies the built constraints, the spinning
\* reserve of a generator is at most its committed headroom,
\* r_sp(g,t) <= pmax(g)*u(g,t) - p(g,t), so it is 0 when u(g,t) = 0, and its
\* non-spinning reserve is at most pmax(g)*(1 - u(g,t)) + (pmax(g) - p(g,t)).
C19_ReserveWithinHeadroom ==
    KFeasible =>
        \A g \in KG(kdata), t \in KT(kdata) :
            LET gen == kdata.gens[g]
                on == kpt.u[<<g, t>>]
                pw == kpt.p[<<g, t>>]
            IN  /\ kpt.r_sp[<<g, t>>] <= gen.pmax * on - pw
                /\ on = 0 => kpt.r_sp[<<g, t>>] = 0
                /\ kpt.r_ns[<<g, t>>] <= gen.pmax * (1 - on) + (gen.pmax - pw)

\* C20: in Scenario A every point that satisfies the built constraints, and
\* so the optimal one, has commitment 1 and dispatch 100 in every period and
\* the objective value 20*100*H, and the dual of the balance constraint of
\* the LP with the binaries fixed (the LMP at the bus) is 20 in every period.
C20_ScenarioA ==
    KFeasible =>
        /\ \A t \in 1 .. kdata.H :
               /\ kpt.u[<<"g1", t>>] = 1
               /\ kpt.p[<<"g1", t>>] = 100
               /\ RatEq(BalanceDual(kdata, kseg, kpt, 1, t), Rat(20))
        /\ RatEq(kobj, Rat(20 * 100 * kdata.H))
        /\ RatEq(LpOptimum(kdata, kseg, kpt), kobj)

C20_Witness ==
    /\ KFeasible
    /\ kdata = ScenarioA(ScenH, 2)
    /\ kpt.p_seg[<<"g1", 1, 1>>] = 100
    /\ kpt.p_seg[<<"g1", 2, ScenH>>] = 100
    /\ RatEq(kobj, Rat(2000 * ScenH))

\* C21: export_results on a model in MILP-Solved, Binaries-Fixed or
\* LP-Resolved state whose variables hold values writes one schedule record
\* per (generator, period) with the model's u, v, w (a value within tolerance
\* of 1 exported as 1) and p, and one price record per (bus, period) with the
\* LMP or null, and changes no variable of the model.
NearOne(q) == 1000000 * (q[2] - q[1]) <= q[2] /\ q[1] <= q[2]
ExportedAs(field, q) ==
    /\ q[2] = 1 => field = q[1]
    /\ NearOne(q) => field = 1

C21_ExportIsProjection ==
    [][(ExportResults /\ HasValues) =>
          /\ xpc' = "exported"
          /\ Cardinality(xrows') = Cardinality(GT)
          /\ \A gt \in GT : \E r \in xrows' :
                 /\ r.gen = gt[1] /\ r.time = gt[2]
                 /\ ExportedAs(r.u, val[<<"u", gt[1], gt[2]>>])
                 /\ ExportedAs(r.v, val[<<"v", gt[1], gt[2]>>])
                 /\ ExportedAs(r.w, val[<<"w", gt[1], gt[2]>>])
                 /\ r.p = cont["p"]
          /\ Cardinality(xlmp_rows') = Cardinality(BT)
          /\ \A bt \in BT : \E r \in xlmp_rows' :
                 /\ r.bus = bt[1] /\ r.time = bt[2]
                 /\ r.lmp = (IF result = {} THEN NoVal
                             ELSE (CHOOSE x \in result : TRUE).lmp[bt])
          /\ UNCHANGED solveVars]_vars

\* C22: a call of solve_uc with neither solver_candidates nor solver_name
\* attempts appsi_highs, then highs, then glpk, in this order, on every call.
DocumentedOrder == <<"appsi_highs", "highs", "glpk">>
C22_DefaultOrder ==
    (arg_name = None /\ arg_candidates = NoCandidates) =>
        /\ Len(MilpCalls) <= Len(DocumentedOrder)
        /\ \A i \in 1 .. Len(MilpCalls) : MilpCalls[i].solver = DocumentedOrder[i]

\* C23: in every point that satisfies the built constraints,
\* v(g,t) >= u(g,t) - u(g,t-1) and w(g,t) >= u(g,t-1) - u(g,t) with u(g,0) = 0:
\* a generator committed in period 1 has v(g,1) = 1, and in period 1 the
\* bound on w(g,1) is never positive.
C23_IndicatorLinks ==
    KFeasible =>
        \A g \in KG(kdata), t \in KT(kdata) :
            LET before == IF t = 1 THEN 0 ELSE kpt.u[<<g, t - 1>>]
            IN  /\ kpt.v[<<g, t>>] >= kpt.u[<<g, t>>] - before
                /\ kpt.w[<<g, t>>] >= before - kpt.u[<<g, t>>]
                /\ (t = 1 /\ kpt.u[<<g, 1>>] = 1) => kpt.v[<<g, 1>>] = 1
                /\ t = 1 => before - kpt.u[<<g, t>>] <= 0

C23_Witness ==
    /\ KFeasible
    /\ kpt.u[<<"g1", 1>>] = 1
    /\ kpt.v[<<"g1", 1>>] = 1
    /\ kpt.w[<<"g1", 1>>] = 0
    /\ kpt.u[<<"g1", 2>>] = 0
    /\ kpt.w[<<"g1", 2>>] = 1

\* C24: the min-up (min-down) window constraints built for a generator with
\* span = min_up (min_down) are none when span = 1 or span > H, and otherwise
\* one for each start period t with 1 <= t and t + span - 1 <= H; no window
\* holds a period outside 1 .. H.
ExpectedWindows(g, span, H) ==
    IF span = 1 \/ span > H THEN {}
    ELSE {<<g, t>> : t \in {k \in 1 .. H : k + span - 1 <= H}}

C24_WindowIndexSets ==
    KBuilt =>
        \A g \in KG(kdata) :
            LET mu == kdata.gens[g].min_up
                md == kdata.gens[g].min_down
            IN  /\ {gt \in MinUpIdx(kdata) : gt[1] = g} = ExpectedWindows(g, mu, kdata.H)
                /\ {gt \in MinDownIdx(kdata) : gt[1] = g} = ExpectedWindows(g, md, kdata.H)
                /\ \A gt \in MinUpIdx(kdata) :
                       WindowPeriods(gt[2], kdata.gens[gt[1]].min_up) \subseteq 1 .. kdata.H
                /\ \A gt \in MinDownIdx(kdata) :
                       WindowPeriods(gt[2], kdata.gens[gt[1]].min_down) \subseteq 1 .. kdata.H

C24_Witness ==
    /\ kpc = "built"
    /\ kdata.gens["g1"].min_up = 2
    /\ kdata.gens["g1"].min_down = kdata.H + 1
    /\ Cardinality(MinUpIdx(kdata)) = kdata.H - 1
    /\ MinDownIdx(kdata) = {}

\* C25: for a generator with min_up = 1 (min_down = 1) the window constraint
\* of span 1 that is left out, v(g,t) <= u(g,t) (w(g,t) + u(g,t) <= 1), holds
\* in every point that satisfies the linking constraints alone, for every t.
LinkingAlone == kpc = "evaluated" /\ StartLink(kdata, kpt) /\ ShutLink(kdata, kpt)
C25_SpanOneImplied ==
    LinkingAlone =>
        \A g \in KG(kdata), t \in KT(kdata) :
            /\ kdata.gens[g].min_up = 1 => kpt.v[<<g, t>>] <= kpt.u[<<g, t>>]
            /\ kdata.gens[g].min_down = 1 => kpt.w[<<g, t>>] + kpt.u[<<g, t>>] <= 1

\* C25, amended: a generator with min_up = 1 (min_down = 1) has no window
\* constraint, and the linking constraints bound the indicators from below
\* only: in every point that satisfies the built constraints the relation of
\* span 1 holds at the periods of a transition (a startup has v = 1 = u, a
\* shutdown has w = 1 and u = 0), while an indicator set without a transition
\* is not excluded.
C25_SpanOneAtTransitions ==
    KFeasible =>
        \A g \in KG(kdata), t \in KT(kdata) :
            LET before == IF t = 1 THEN 0 ELSE kpt.u[<<g, t - 1>>]
                on == kpt.u[<<g, t>>]
            IN  /\ kdata.gens[g].min_up = 1 =>
                       /\ <<g, t>> \notin MinUpIdx(kdata)
                       /\ (before = 0 /\ on = 1) =>
                              kpt.v[<<g, t>>] = 1 /\ kpt.v[<<g, t>>] <= on
                /\ kdata.gens[g].min_down = 1 =>
                       /\ <<g, t>> \notin MinDownIdx(kdata)
                       /\ (before = 1 /\ on = 0) =>
                              kpt.w[<<g, t>>] = 1 /\ kpt.w[<<g, t>>] + on <= 1

C25_Witness ==
    /\ KFeasible
    /\ kdata.gens["g1"].min_up = 1 /\ kdata.gens["g1"].min_down = 1
    /\ kpt.u[<<"g1", 1>>] = 1 /\ kpt.v[<<"g1", 1>>] = 1
    /\ kpt.u[<<"g1", 2>>] = 0 /\ kpt.w[<<"g1", 2>>] = 1
    /\ kpt.v[<<"g1", 3>>] = 1 /\ kpt.u[<<"g1", 3>>] = 0

\* C26: in every point that satisfies the built constraints the dispatch is at
\* most the total width of the segments, p(g,t) <= pmax(g) - pmin(g); so a
\* generator with 2*pmin > pmax is never committed, and a committed generator
\* with pmin > 0 is never dispatched at pmax.
C26_DispatchWithinSegmentWidth ==
    KFeasible =>
        \A g \in KG(kdata), t \in KT(kdata) :
            LET gen == kdata.gens[g]
            IN  /\ kpt.p[<<g, t>>] <= gen.pmax - gen.pmin
                /\ 2 * gen.pmin > gen.pmax => kpt.u[<<g, t>>] = 0
                /\ (kpt.u[<<g, t>>] = 1 /\ gen.pmin > 0) => kpt.p[<<g, t>>] # gen.pmax

C26_Witness ==
    /\ KFeasible
    /\ kdata.gens["g1"].pmin = 1
    /\ kdata.gens["g1"].pmax = 2
    /\ kpt.u[<<"g1", 1>>] = 1
    /\ kpt.p[<<"g1", 1>>] = 1

\* C27: the ramp constraints also hold across a change of commitment: for a
\* generator with pmin > ramp_up no point that satisfies the built
\* constraints has u(g,t-1) = 0 and u(g,t) = 1 for a t >= 2 (it is on only if
\* it is on from period 1), and with pmin > ramp_down none has u(g,t-1) = 1
\* and u(g,t) = 0.
C27_RampBlocksTransitions ==
    KFeasible =>
        \A g \in KG(kdata), t \in 2 .. kdata.H :
            /\ kdata.gens[g].pmin > kdata.gens[g].ramp_up =>
                   ~(kpt.u[<<g, t - 1>>] = 0 /\ kpt.u[<<g, t>>] = 1)
            /\ kdata.gens[g].pmin > kdata.gens[g].ramp_down =>
                   ~(kpt.u[<<g, t - 1>>] = 1 /\ kpt.u[<<g, t>>] = 0)

C27_Witness ==
    /\ KFeasible
    /\ kdata.gens["g1"].pmin = 1
    /\ kdata.gens["g1"].ramp_up = 0
    /\ kdata.gens["g1"].ramp_down = 0
    /\ \A t \in 1 .. kdata.H : kpt.u[<<"g1", t>>] = 1 /\ kpt.p[<<"g1", t>>] = 1

\* C28: min-up is not enforced for startups in the last min_up - 1 periods:
\* for every generator with min_up > 1 there is a point that satisfies the
\* built constraints in which the generator starts up at a period
\* t > H - min_up + 1 and is off at period t + 1 <= H.
StartsLateThenOff(d, x, g) ==
    \E t \in KT(d) :
        /\ t > d.H - d.gens[g].min_up + 1
        /\ t + 1 <= d.H
        /\ PrevU(x, g, t) = 0 /\ x.u[<<g, t>>] = 1 /\ x.v[<<g, t>>] = 1
        /\ x.u[<<g, t + 1>>] = 0

C28_MinUpUnenforcedAtEnd ==
    KBuilt =>
        \A g \in KG(kdata) :
            kdata.gens[g].min_up > 1 =>
                \E x \in CommitPoints(kdata) :
                    BuiltConstraints(kdata, kseg, x) /\ StartsLateThenOff(kdata, x, g)

\* C28, amended: for a generator with 1 < min_up <= H a startup indicator
\* v(g,t) = 1 at any period t keeps the generator committed through period
\* min(t + min_up - 1, H) in every point that satisfies the built
\* constraints: a startup in the last min_up - 1 periods stays on to the end
\* of the horizon. Only for min_up > H, where no window is built, are there
\* such points with a startup at t and the generator off at t + 1 <= H.
C28_MinUpHeldToHorizonEnd ==
    KFeasible =>
        \A g \in KG(kdata), t \in KT(kdata) :
            LET mu == kdata.gens[g].min_up
                last == IF t + mu - 1 <= kdata.H THEN t + mu - 1 ELSE kdata.H
            IN  /\ (1 < mu /\ mu <= kdata.H /\ kpt.v[<<g, t>>] = 1) =>
                       \A k \in t .. last : kpt.u[<<g, k>>] = 1
                /\ StartsLateThenOff(kdata, kpt, g) =>
                       mu > kdata.H /\ MinUpIdx(kdata) = {}

C28_Witness ==
    /\ KFeasible
    /\ kdata.gens["g1"].min_up = 3
    /\ kpt.u[<<"g1", 1>>] = 0
    /\ kpt.v[<<"g1", 2>>] = 1
    /\ kpt.u[<<"g1", 2>>] = 1
    /\ kpt.u[<<"g1", 3>>] = 1

\* C29: a call of solve_uc with a solver_name walks the candidate list
\* [solver_name] whatever solver_candidates was passed: every MILP call is
\* made with solver_name, there is at most one, and when it raises the next
\* step raises out of solve_uc.
C29_NamedSolverOnly ==
    (arg_name # None /\ pc # "start") =>
        /\ solver_candidates = <<arg_name>>
        /\ Len(MilpCalls) <= 1
        /\ \A i \in 1 .. Len(MilpCalls) : MilpCalls[i].solver = arg_name
        /\ (Len(MilpCalls) = 1 /\ MilpCalls[1].outcome = "raise") =>
               /\ pc \in {"milp", "raised"}
               /\ pc = "milp" => (ENABLED MilpExhausted /\ ~ENABLED MilpAttempt)
               /\ Len(calls) = 1

C29_Witness ==
    /\ pc = "raised"
    /\ arg_name = "glpk"
    /\ arg_candidates = <<"cbc", "cbc", "glpk">>
    /\ Len(calls) = 1
    /\ calls[1].solver = "glpk"
    /\ calls[1].outcome = "raise"

\* C30: when glpk returned from the MILP stage and its LP re-solve raises, no
\* other LP call is made and that exception leaves solve_uc as it is; every
\* u, v, w stays fixed at its rounded value and no LMP map is returned.
GlpkLpRaised ==
    /\ Len(LpCalls) >= 1
    /\ LpCalls[1].solver = "glpk"
    /\ LpCalls[1].outcome = "raise"
    /\ MilpCalls[Len(MilpCalls)].solver = "glpk"

C30_GlpkLpFailurePropagates ==
    /\ [](GlpkLpRaised =>
            /\ pc = "raised"
            /\ Len(LpCalls) = 1
            /\ calls[Len(calls)] = LpCalls[1]
            /\ exc = {[type |-> "reraised", causes |-> {Len(calls)}]}
            /\ AllFixed
            /\ \A x \in BinVars : val[x][2] = 1
            /\ result = {}
            /\ ~ENABLED Next)
    /\ [][(~GlpkLpRaised /\ GlpkLpRaised') =>
            /\ pc = "fixed"
            /\ val' = val
            /\ fixed' = fixed
            /\ used_solver' = used_solver]_vars

C30_Witness ==
    /\ GlpkLpRaised
    /\ pc = "raised"
    /\ Len(calls) = 3
    /\ calls[1].solver = "cbc" /\ calls[1].outcome = "raise"
    /\ \E x \in BinVars : val[x] = <<1, 1>>
====
